---- MODULE Spec2Model ----
(***************************************************************************)
(* The AlumniVerification contract (BlockChain/src/AlumniVerification.sol) *)
(* as a state machine: the access registry (owner, authorizedIssuers,      *)
(* issuerNames), the credential ledger (records, certificateIds,           *)
(* totalRecords) and the receipt of the last transaction.  Every external  *)
(* function is one action; a failing require reverts the transaction.      *)
(* The backend (hashUtils.js, routes/admin.js) hashes the plaintext and    *)
(* sends the addAlumniRecord transactions.                                 *)
(***************************************************************************)
EXTENDS Integers, Sequences, FiniteSets, TLC

\* ------------------------------------------------------------------------
\* Bounds and input sets
\* ------------------------------------------------------------------------

\* Highest block number the environment mines.
MaxBlock == 2

\* block.timestamp of the block the contract is deployed in (block 1).
DeployTime == 2

ZeroAddress == "0x0"

\* Externally owned accounts that send transactions.
Accounts == {"owner", "issuer1", "issuer2"}

Address == Accounts \cup {ZeroAddress}

\* The account that deploys the contract.
Deployer == "owner"

EmptyName == ""

\* The institution name given to the constructor, and the names the owner
\* registers issuers under.
DeployName == "Test University"

InstitutionNames == {"College of Engineering"}

\* Strings are sequences of characters; <<>> is the empty string.
Chars == {1, 2}

EmptyString == <<>>

\* Field strings given to generateDataHash.
FieldStrings == {EmptyString, <<1>>, <<2>>}

\* Most fields of a plaintext that are filled in (not empty).
MaxFilled == 2

\* The six plaintext fields: name, rollNumber, degree, branch,
\* graduationYear, certId.
FieldTuples ==
    {f \in [1..6 -> FieldStrings] :
        Cardinality({i \in 1..6 : f[i] # EmptyString}) <= MaxFilled}

NoFields == [i \in 1..6 |-> EmptyString]

\* Certificate ids: the keys of the ledger, the empty id included.
CertIds == {EmptyString, <<1>>, <<2>>}

\* bytes32(0)
ZeroHash == 0

\* ------------------------------------------------------------------------
\* generateDataHash
\* ------------------------------------------------------------------------

\* abi.encodePacked of strings: the strings' bytes, one after the other,
\* with no length prefix and no delimiter.
\* encodePacked that puts the length of each string before its bytes.
RECURSIVE encodePackedWithLengths(_)
encodePackedWithLengths(fields) ==
    IF fields = <<>> THEN <<>>
    ELSE <<Len(Head(fields))>> \o Head(fields) \o encodePackedWithLengths(Tail(fields))

RECURSIVE encodePacked(_)
encodePacked(fields) ==
    IF fields = <<>> THEN <<>>
    ELSE Head(fields) \o encodePacked(Tail(fields))

\* keccak256, taken as collision free: an injection from byte strings to
\* the non-zero 32-byte values (bijective numeration in base |Chars|, plus one).
RECURSIVE keccak256(_)
keccak256(bytes) ==
    IF bytes = <<>> THEN 1
    ELSE (keccak256(SubSeq(bytes, 1, Len(bytes) - 1)) - 1) * Cardinality(Chars)
         + bytes[Len(bytes)] + 1

\* generateDataHash that leaves _graduationYear out of the packed bytes.
generateDataHashWithoutYear(_name, _rollNumber, _degree, _branch, _graduationYear, _certId) ==
    keccak256(encodePacked(<<_name, _rollNumber, _degree, _branch, _certId>>))

generateDataHash(_name, _rollNumber, _degree, _branch, _graduationYear, _certId) ==
    keccak256(encodePacked(
        <<_name, _rollNumber, _degree, _branch, _graduationYear, _certId>>))

\* utils/hashUtils.js of the backend.  ethers.utils.solidityKeccak256 packs
\* the values by their types, a string as its UTF-8 bytes without length or
\* padding, and takes keccak256 of the packed bytes.
toUtf8Bytes(str) == str

RECURSIVE solidityPack(_, _)
solidityPack(types, values) ==
    IF types = <<>> THEN <<>>
    ELSE toUtf8Bytes(Head(values)) \o solidityPack(Tail(types), Tail(values))

solidityKeccak256(types, values) == keccak256(solidityPack(types, values))

\* The request body of the backend: the six plaintext fields by name.
AlumniDataOf(f) ==
    [name |-> f[1], rollNumber |-> f[2], degree |-> f[3], branch |-> f[4],
     graduationYear |-> f[5], certId |-> f[6]]

\* generateDataHash of hashUtils.js with graduationYear and certId in each
\* other's place.
hashUtils_generateDataHashReordered(data) ==
    solidityKeccak256(
        <<"string", "string", "string", "string", "string", "string">>,
        <<data.name, data.rollNumber, data.degree, data.branch,
          data.certId, data.graduationYear>>)

\* generateDataHash of hashUtils.js.
hashUtils_generateDataHash(data) ==
    solidityKeccak256(
        <<"string", "string", "string", "string", "string", "string">>,
        <<data.name, data.rollNumber, data.degree, data.branch,
          data.graduationYear, data.certId>>)

\* The hashes callers pass to addAlumniRecord and verifyRecord: bytes32(0),
\* and keccak256("correct") and keccak256("wrong") of the tests.
DataHashes == {ZeroHash, keccak256(<<1>>), keccak256(<<2>>)}

\* ------------------------------------------------------------------------
\* State
\* ------------------------------------------------------------------------

VARIABLES
    owner,              \* address public owner
    authorizedIssuers,  \* mapping(address => bool)
    issuerNames,        \* mapping(address => string)
    records,            \* mapping(string => AlumniRecord)
    certificateIds,     \* string[]
    totalRecords,       \* uint256
    blockNumber,        \* block.number of the block being executed
    blockTimestamp,     \* block.timestamp of the block being executed
    tx,                 \* receipt of the last transaction
    alumniData,         \* the plaintext fields last presented for verification
    requests,           \* the POST /api/admin/add requests of the backend
    check,              \* the POST /api/verify/check request of the backend
    eventLog            \* the AlumniRecordAdded events in the chain's log

registry == <<owner, authorizedIssuers, issuerNames>>
ledger == <<records, certificateIds, totalRecords>>
chain == <<blockNumber, blockTimestamp>>
vars == <<owner, authorizedIssuers, issuerNames, records, certificateIds,
          totalRecords, blockNumber, blockTimestamp, tx, alumniData,
          requests, check, eventLog>>

\* struct AlumniRecord, and the value an unset mapping slot reads as.
AlumniRecord(_certId, _dataHash, _issuer, _timestamp, _blockNumber, _exists, _issuerName) ==
    [certId |-> _certId, dataHash |-> _dataHash, issuer |-> _issuer,
     timestamp |-> _timestamp, blockNumber |-> _blockNumber,
     exists |-> _exists, issuerName |-> _issuerName]

DefaultRecord ==
    AlumniRecord(EmptyString, ZeroHash, ZeroAddress, 0, 0, FALSE, EmptyName)

\* Events
AlumniRecordAdded(_certId, _dataHash, _issuer, _issuerName, _timestamp, _blockNumber) ==
    [event |-> "AlumniRecordAdded", certId |-> _certId, dataHash |-> _dataHash,
     issuer |-> _issuer, issuerName |-> _issuerName,
     timestamp |-> _timestamp, blockNumber |-> _blockNumber]

IssuerAuthorized(_issuer, _name) ==
    [event |-> "IssuerAuthorized", issuer |-> _issuer, name |-> _name]

IssuerRevoked(_issuer) ==
    [event |-> "IssuerRevoked", issuer |-> _issuer]

RecordVerified(_certId, _isValid) ==
    [event |-> "RecordVerified", certId |-> _certId, isValid |-> _isValid]

\* What a transaction leaves behind: the function called, "ok" or the revert
\* reason, the return values and the events emitted.
Receipt(_op, _status, _ret, _logs) ==
    [op |-> _op, status |-> _status, ret |-> _ret, logs |-> _logs]

\* A failing require: the transaction reverts with the reason string, every
\* storage write and every event of the call is discarded.
Revert(_op, reason) ==
    /\ tx' = Receipt(_op, reason, <<>>, <<>>)
    /\ UNCHANGED <<registry, ledger, chain>>

\* The requests the backend handles at the same time, and a request that
\* has not arrived: where its handler stands, its body, the hash generated
\* for it and the response sent.
RequestIds == {1, 2}

NoResponse == [status |-> 0, message |-> "", error |-> ""]

IdleRequest ==
    [pc |-> "idle", body |-> NoFields, dataHash |-> ZeroHash, response |-> NoResponse]

\* The request of the verification route before it arrives: where its
\* handler stands, the certId and the alumniData of its body, and the
\* response sent.  Null is an alumniData that is not in the body.
Null == <<>>

NoData ==
    [certId |-> EmptyString, issuer |-> ZeroAddress, issuerName |-> EmptyName,
     timestamp |-> 0, blockNumber |-> 0, isValid |-> FALSE]

NoCheckResponse ==
    [status |-> 0, success |-> FALSE, valid |-> FALSE, message |-> "", data |-> NoData]

IdleCheck ==
    [pc |-> "idle", certId |-> EmptyString, alumniData |-> Null,
     response |-> NoCheckResponse]

\* The events of the transaction enter the log of the chain when it is
\* mined; a reverted transaction has none.
IsAlumniRecordAdded(e) == e.event = "AlumniRecordAdded"

emit == eventLog' = eventLog \o SelectSeq(tx'.logs, IsAlumniRecordAdded)

\* ------------------------------------------------------------------------
\* Modifiers
\* ------------------------------------------------------------------------

\* onlyOwner with the require left out.
onlyOwnerSkipped(sender) == TRUE

onlyOwner(sender) == sender = owner

\* onlyAuthorizedIssuer with the require left out.
onlyAuthorizedIssuerSkipped(sender) == TRUE

\* onlyAuthorizedIssuer that takes a registered name for an authorization.
onlyAuthorizedIssuerByName(sender) == issuerNames[sender] # EmptyName

onlyAuthorizedIssuer(sender) == authorizedIssuers[sender]

\* certIdNotExists with the require left out.
certIdNotExistsSkipped(_certId) == TRUE

certIdNotExists(_certId) == ~records[_certId].exists

\* certIdExists with the require left out.
certIdExistsSkipped(_certId) == TRUE

certIdExists(_certId) == records[_certId].exists

\* ------------------------------------------------------------------------
\* Views
\* ------------------------------------------------------------------------

\* getRecord that reads the issuer's name from issuerNames.
getRecordLiveName(_certId) ==
    LET record == records[_certId]
    IN  <<record.dataHash, record.issuer, issuerNames[record.issuer],
          record.timestamp, record.blockNumber, record.exists>>

\* getRecord that reports every certId it is asked about as existing.
getRecordAlwaysExists(_certId) ==
    LET record == records[_certId]
    IN  <<record.dataHash, record.issuer, record.issuerName,
          record.timestamp, record.blockNumber, TRUE>>

getRecord(_certId) ==
    LET record == records[_certId]
    IN  <<record.dataHash, record.issuer, record.issuerName,
          record.timestamp, record.blockNumber, record.exists>>

recordExists(_certId) == records[_certId].exists

getAllCertificateIds == certificateIds

getTotalRecords == totalRecords

isAuthorizedIssuer(_address) == authorizedIssuers[_address]

getIssuerName(_issuer) == issuerNames[_issuer]

\* ------------------------------------------------------------------------
\* Constructor
\* ------------------------------------------------------------------------

\* constructor without the assignment to owner.
constructorWithoutOwner(sender, _institutionName) ==
    /\ owner = ZeroAddress
    /\ authorizedIssuers = [a \in Address |-> a = sender]
    /\ issuerNames = [a \in Address |->
                        IF a = sender THEN _institutionName ELSE EmptyName]
    /\ records = [c \in CertIds |-> DefaultRecord]
    /\ certificateIds = <<>>
    /\ totalRecords = 0
    /\ tx = Receipt("constructor", "ok", <<>>,
                    <<IssuerAuthorized(sender, _institutionName)>>)

\* constructor without the assignment to issuerNames.
constructorWithoutName(sender, _institutionName) ==
    /\ owner = sender
    /\ authorizedIssuers = [a \in Address |-> a = sender]
    /\ issuerNames = [a \in Address |->
                        IF a = sender THEN EmptyName ELSE EmptyName]
    /\ records = [c \in CertIds |-> DefaultRecord]
    /\ certificateIds = <<>>
    /\ totalRecords = 0
    /\ tx = Receipt("constructor", "ok", <<>>,
                    <<IssuerAuthorized(sender, _institutionName)>>)

constructor(sender, _institutionName) ==
    /\ owner = sender
    /\ authorizedIssuers = [a \in Address |-> a = sender]
    /\ issuerNames = [a \in Address |->
                        IF a = sender THEN _institutionName ELSE EmptyName]
    /\ records = [c \in CertIds |-> DefaultRecord]
    /\ certificateIds = <<>>
    /\ totalRecords = 0
    /\ tx = Receipt("constructor", "ok", <<>>,
                    <<IssuerAuthorized(sender, _institutionName)>>)

\* ------------------------------------------------------------------------
\* Admin functions
\* ------------------------------------------------------------------------

\* The modifier and the require statements of authorizeIssuer, in the order
\* they run: the reason of the first that fails, or "ok".
\* The checks of authorizeIssuer without the require on the address.
authorizeIssuerStatusAnyAddress(sender, _issuer) ==
    IF ~onlyOwner(sender) THEN "Only owner can call this function"
    ELSE IF authorizedIssuers[_issuer] THEN "Issuer already authorized"
    ELSE "ok"

\* The checks of authorizeIssuer without the require on authorizedIssuers.
authorizeIssuerStatusReauthorizing(sender, _issuer) ==
    IF ~onlyOwner(sender) THEN "Only owner can call this function"
    ELSE IF _issuer = ZeroAddress THEN "Invalid issuer address"
    ELSE "ok"

authorizeIssuerStatus(sender, _issuer) ==
    IF ~onlyOwner(sender) THEN "Only owner can call this function"
    ELSE IF _issuer = ZeroAddress THEN "Invalid issuer address"
    ELSE IF authorizedIssuers[_issuer] THEN "Issuer already authorized"
    ELSE "ok"

\* authorizeIssuer that stores the name only for an issuer that has none.
authorizeIssuerKeepingName(sender, _issuer, _name) ==
    LET status == authorizeIssuerStatus(sender, _issuer)
    IN  IF status # "ok"
        THEN Revert("authorizeIssuer", status)
        ELSE /\ authorizedIssuers' = [authorizedIssuers EXCEPT ![_issuer] = TRUE]
             /\ issuerNames' = IF issuerNames[_issuer] = EmptyName
                               THEN [issuerNames EXCEPT ![_issuer] = _name]
                               ELSE issuerNames
             /\ tx' = Receipt("authorizeIssuer", "ok", <<>>,
                              <<IssuerAuthorized(_issuer, _name)>>)
             /\ UNCHANGED <<owner, ledger, chain>>

authorizeIssuer(sender, _issuer, _name) ==
    LET status == authorizeIssuerStatus(sender, _issuer)
    IN  IF status # "ok"
        THEN Revert("authorizeIssuer", status)
        ELSE /\ authorizedIssuers' = [authorizedIssuers EXCEPT ![_issuer] = TRUE]
             /\ issuerNames' = [issuerNames EXCEPT ![_issuer] = _name]
             /\ tx' = Receipt("authorizeIssuer", "ok", <<>>,
                              <<IssuerAuthorized(_issuer, _name)>>)
             /\ UNCHANGED <<owner, ledger, chain>>

\* The checks of revokeIssuer protecting the deployer instead of the owner.
revokeIssuerStatusFirstOwner(sender, _issuer) ==
    IF ~onlyOwner(sender) THEN "Only owner can call this function"
    ELSE IF ~authorizedIssuers[_issuer] THEN "Issuer not authorized"
    ELSE IF ~(_issuer # Deployer) THEN "Cannot revoke owner"
    ELSE "ok"

\* The checks of revokeIssuer without the require on the owner.
revokeIssuerStatusAnyIssuer(sender, _issuer) ==
    IF ~onlyOwner(sender) THEN "Only owner can call this function"
    ELSE IF ~authorizedIssuers[_issuer] THEN "Issuer not authorized"
    ELSE "ok"

revokeIssuerStatus(sender, _issuer) ==
    IF ~onlyOwner(sender) THEN "Only owner can call this function"
    ELSE IF ~authorizedIssuers[_issuer] THEN "Issuer not authorized"
    ELSE IF _issuer = owner THEN "Cannot revoke owner"
    ELSE "ok"

\* revokeIssuer that also deletes the name of the issuer.
revokeIssuerClearingName(sender, _issuer) ==
    LET status == revokeIssuerStatus(sender, _issuer)
    IN  IF status # "ok"
        THEN Revert("revokeIssuer", status)
        ELSE /\ authorizedIssuers' = [authorizedIssuers EXCEPT ![_issuer] = FALSE]
             /\ issuerNames' = [issuerNames EXCEPT ![_issuer] = EmptyName]
             /\ tx' = Receipt("revokeIssuer", "ok", <<>>, <<IssuerRevoked(_issuer)>>)
             /\ UNCHANGED <<owner, ledger, chain>>

\* revokeIssuer that also deletes the records the issuer created.
revokeIssuerDeletingRecords(sender, _issuer) ==
    LET status == revokeIssuerStatus(sender, _issuer)
    IN  IF status # "ok"
        THEN Revert("revokeIssuer", status)
        ELSE /\ authorizedIssuers' = [authorizedIssuers EXCEPT ![_issuer] = FALSE]
             /\ records' = [c \in CertIds |->
                               IF records[c].issuer = _issuer
                               THEN DefaultRecord ELSE records[c]]
             /\ tx' = Receipt("revokeIssuer", "ok", <<>>, <<IssuerRevoked(_issuer)>>)
             /\ UNCHANGED <<owner, issuerNames, certificateIds, totalRecords, chain>>

revokeIssuer(sender, _issuer) ==
    LET status == revokeIssuerStatus(sender, _issuer)
    IN  IF status # "ok"
        THEN Revert("revokeIssuer", status)
        ELSE /\ authorizedIssuers' = [authorizedIssuers EXCEPT ![_issuer] = FALSE]
             /\ tx' = Receipt("revokeIssuer", "ok", <<>>, <<IssuerRevoked(_issuer)>>)
             /\ UNCHANGED <<owner, issuerNames, ledger, chain>>

\* The checks of transferOwnership without the require on address(0).
transferOwnershipStatusAnyAddress(sender, _newOwner) ==
    IF ~onlyOwner(sender) THEN "Only owner can call this function"
    ELSE IF _newOwner = owner THEN "Already the owner"
    ELSE "ok"

transferOwnershipStatus(sender, _newOwner) ==
    IF ~onlyOwner(sender) THEN "Only owner can call this function"
    ELSE IF _newOwner = ZeroAddress THEN "Invalid new owner address"
    ELSE IF _newOwner = owner THEN "Already the owner"
    ELSE "ok"

\* transferOwnership without the authorization of the new owner.
transferOwnershipNotAuthorizing(sender, _newOwner) ==
    LET status == transferOwnershipStatus(sender, _newOwner)
    IN  IF status # "ok"
        THEN Revert("transferOwnership", status)
        ELSE /\ owner' = _newOwner
             /\ tx' = Receipt("transferOwnership", "ok", <<>>, <<>>)
             /\ UNCHANGED <<authorizedIssuers, issuerNames, ledger, chain>>

\* transferOwnership without the assignment to owner.
transferOwnershipKeepingOwner(sender, _newOwner) ==
    LET status == transferOwnershipStatus(sender, _newOwner)
    IN  IF status # "ok"
        THEN Revert("transferOwnership", status)
        ELSE /\ authorizedIssuers' = [authorizedIssuers EXCEPT ![_newOwner] = TRUE]
             /\ tx' = Receipt("transferOwnership", "ok", <<>>, <<>>)
             /\ UNCHANGED <<owner, issuerNames, ledger, chain>>

\* transferOwnership that takes the authorization from the former owner.
transferOwnershipRevokingOld(sender, _newOwner) ==
    LET status == transferOwnershipStatus(sender, _newOwner)
    IN  IF status # "ok"
        THEN Revert("transferOwnership", status)
        ELSE /\ owner' = _newOwner
             /\ authorizedIssuers' = [authorizedIssuers EXCEPT ![_newOwner] = TRUE,
                                                               ![owner] = FALSE]
             /\ tx' = Receipt("transferOwnership", "ok", <<>>, <<>>)
             /\ UNCHANGED <<issuerNames, ledger, chain>>

\* transferOwnership that hands the institution name over with the
\* ownership.
transferOwnershipNaming(sender, _newOwner) ==
    LET status == transferOwnershipStatus(sender, _newOwner)
    IN  IF status # "ok"
        THEN Revert("transferOwnership", status)
        ELSE /\ owner' = _newOwner
             /\ authorizedIssuers' = [authorizedIssuers EXCEPT ![_newOwner] = TRUE]
             /\ issuerNames' = [issuerNames EXCEPT ![_newOwner] = issuerNames[owner]]
             /\ tx' = Receipt("transferOwnership", "ok", <<>>, <<>>)
             /\ UNCHANGED <<ledger, chain>>

transferOwnership(sender, _newOwner) ==
    LET status == transferOwnershipStatus(sender, _newOwner)
    IN  IF status # "ok"
        THEN Revert("transferOwnership", status)
        ELSE /\ owner' = _newOwner
             /\ authorizedIssuers' =
                    IF ~authorizedIssuers[_newOwner]
                    THEN [authorizedIssuers EXCEPT ![_newOwner] = TRUE]
                    ELSE authorizedIssuers
             /\ tx' = Receipt("transferOwnership", "ok", <<>>, <<>>)
             /\ UNCHANGED <<issuerNames, ledger, chain>>

\* ------------------------------------------------------------------------
\* Core functions
\* ------------------------------------------------------------------------

\* The checks of addAlumniRecord without the require on _certId.
addAlumniRecordStatusAnyCertId(sender, _certId, _dataHash) ==
    IF ~onlyAuthorizedIssuer(sender) THEN "Not an authorized issuer"
    ELSE IF ~certIdNotExists(_certId) THEN "Certificate ID already exists"
    ELSE IF ~(_dataHash # ZeroHash) THEN "Data hash cannot be empty"
    ELSE "ok"

\* The checks of addAlumniRecord without the require on _dataHash.
addAlumniRecordStatusAnyHash(sender, _certId, _dataHash) ==
    IF ~onlyAuthorizedIssuer(sender) THEN "Not an authorized issuer"
    ELSE IF ~certIdNotExists(_certId) THEN "Certificate ID already exists"
    ELSE IF ~(Len(_certId) > 0) THEN "Certificate ID cannot be empty"
    ELSE "ok"

\* The checks of addAlumniRecord without the modifier certIdNotExists.
addAlumniRecordStatusOverwriting(sender, _certId, _dataHash) ==
    IF ~onlyAuthorizedIssuer(sender) THEN "Not an authorized issuer"
    ELSE IF ~(Len(_certId) > 0) THEN "Certificate ID cannot be empty"
    ELSE IF ~(_dataHash # ZeroHash) THEN "Data hash cannot be empty"
    ELSE "ok"

addAlumniRecordStatus(sender, _certId, _dataHash) ==
    IF ~onlyAuthorizedIssuer(sender) THEN "Not an authorized issuer"
    ELSE IF ~certIdNotExists(_certId) THEN "Certificate ID already exists"
    ELSE IF ~(Len(_certId) > 0) THEN "Certificate ID cannot be empty"
    ELSE IF ~(_dataHash # ZeroHash) THEN "Data hash cannot be empty"
    ELSE "ok"

\* addAlumniRecord that stores the record without emitting the event.
addAlumniRecordSilent(sender, _certId, _dataHash) ==
    LET status == addAlumniRecordStatus(sender, _certId, _dataHash)
        newRecord == AlumniRecord(_certId, _dataHash, sender, blockTimestamp,
                                  blockNumber, TRUE, issuerNames[sender])
    IN  IF status # "ok"
        THEN Revert("addAlumniRecord", status)
        ELSE /\ records' = [records EXCEPT ![_certId] = newRecord]
             /\ certificateIds' = Append(certificateIds, _certId)
             /\ totalRecords' = totalRecords + 1
             /\ tx' = Receipt("addAlumniRecord", "ok",
                              <<TRUE, blockTimestamp, blockNumber>>, <<>>)
             /\ UNCHANGED <<registry, chain>>

\* addAlumniRecord that counts the record before it validates the hash.
addAlumniRecordCountingFirst(sender, _certId, _dataHash) ==
    LET status == addAlumniRecordStatus(sender, _certId, _dataHash)
        newRecord == AlumniRecord(_certId, _dataHash, sender, blockTimestamp,
                                  blockNumber, TRUE, issuerNames[sender])
    IN  IF status = "Data hash cannot be empty"
        THEN /\ totalRecords' = totalRecords + 1
             /\ tx' = Receipt("addAlumniRecord", status, <<>>, <<>>)
             /\ UNCHANGED <<registry, records, certificateIds, chain>>
        ELSE IF status # "ok"
        THEN Revert("addAlumniRecord", status)
        ELSE /\ records' = [records EXCEPT ![_certId] = newRecord]
             /\ certificateIds' = Append(certificateIds, _certId)
             /\ totalRecords' = totalRecords + 1
             /\ tx' = Receipt("addAlumniRecord", "ok",
                              <<TRUE, blockTimestamp, blockNumber>>,
                              <<AlumniRecordAdded(_certId, _dataHash, sender,
                                                  issuerNames[sender],
                                                  blockTimestamp, blockNumber)>>)
             /\ UNCHANGED <<registry, chain>>

\* addAlumniRecord without totalRecords++.
addAlumniRecordNotCounting(sender, _certId, _dataHash) ==
    LET status == addAlumniRecordStatus(sender, _certId, _dataHash)
        newRecord == AlumniRecord(_certId, _dataHash, sender, blockTimestamp,
                                  blockNumber, TRUE, issuerNames[sender])
    IN  IF status # "ok"
        THEN Revert("addAlumniRecord", status)
        ELSE /\ records' = [records EXCEPT ![_certId] = newRecord]
             /\ certificateIds' = Append(certificateIds, _certId)
             /\ totalRecords' = totalRecords
             /\ tx' = Receipt("addAlumniRecord", "ok",
                              <<TRUE, blockTimestamp, blockNumber>>,
                              <<AlumniRecordAdded(_certId, _dataHash, sender,
                                                  issuerNames[sender],
                                                  blockTimestamp, blockNumber)>>)
             /\ UNCHANGED <<registry, chain>>

\* addAlumniRecord that takes the institution name of the owner.
addAlumniRecordOwnerName(sender, _certId, _dataHash) ==
    LET status == addAlumniRecordStatus(sender, _certId, _dataHash)
        newRecord == AlumniRecord(_certId, _dataHash, sender, blockTimestamp,
                                  blockNumber, TRUE, issuerNames[owner])
    IN  IF status # "ok"
        THEN Revert("addAlumniRecord", status)
        ELSE /\ records' = [records EXCEPT ![_certId] = newRecord]
             /\ certificateIds' = Append(certificateIds, _certId)
             /\ totalRecords' = totalRecords + 1
             /\ tx' = Receipt("addAlumniRecord", "ok",
                              <<TRUE, blockTimestamp, blockNumber>>,
                              <<AlumniRecordAdded(_certId, _dataHash, sender,
                                                  issuerNames[owner],
                                                  blockTimestamp, blockNumber)>>)
             /\ UNCHANGED <<registry, chain>>

\* addAlumniRecord that stores block.number as the timestamp and
\* block.timestamp as the block number.
addAlumniRecordSwappingMarker(sender, _certId, _dataHash) ==
    LET status == addAlumniRecordStatus(sender, _certId, _dataHash)
        newRecord == AlumniRecord(_certId, _dataHash, sender, blockNumber,
                                  blockTimestamp, TRUE, issuerNames[sender])
    IN  IF status # "ok"
        THEN Revert("addAlumniRecord", status)
        ELSE /\ records' = [records EXCEPT ![_certId] = newRecord]
             /\ certificateIds' = Append(certificateIds, _certId)
             /\ totalRecords' = totalRecords + 1
             /\ tx' = Receipt("addAlumniRecord", "ok",
                              <<TRUE, blockTimestamp, blockNumber>>,
                              <<AlumniRecordAdded(_certId, _dataHash, sender,
                                                  issuerNames[sender],
                                                  blockTimestamp, blockNumber)>>)
             /\ UNCHANGED <<registry, chain>>

addAlumniRecord(sender, _certId, _dataHash) ==
    LET status == addAlumniRecordStatus(sender, _certId, _dataHash)
        newRecord == AlumniRecord(_certId, _dataHash, sender, blockTimestamp,
                                  blockNumber, TRUE, issuerNames[sender])
    IN  IF status # "ok"
        THEN Revert("addAlumniRecord", status)
        ELSE /\ records' = [records EXCEPT ![_certId] = newRecord]
             /\ certificateIds' = Append(certificateIds, _certId)
             /\ totalRecords' = totalRecords + 1
             /\ tx' = Receipt("addAlumniRecord", "ok",
                              <<TRUE, blockTimestamp, blockNumber>>,
                              <<AlumniRecordAdded(_certId, _dataHash, sender,
                                                  issuerNames[sender],
                                                  blockTimestamp, blockNumber)>>)
             /\ UNCHANGED <<registry, chain>>

verifyRecordStatus(_certId) ==
    IF ~certIdExists(_certId) THEN "Certificate ID does not exist" ELSE "ok"

\* verifyRecord that returns the attribution only when the hash matches.
verifyRecordHidingMismatch(sender, _certId, _dataHash) ==
    LET status == verifyRecordStatus(_certId)
        record == records[_certId]
        isValid == (record.dataHash = _dataHash)
    IN  IF status # "ok"
        THEN Revert("verifyRecord", status)
        ELSE /\ tx' = Receipt("verifyRecord", "ok",
                              IF isValid
                              THEN <<isValid, record.issuer, record.issuerName,
                                     record.timestamp, record.blockNumber>>
                              ELSE <<isValid, ZeroAddress, EmptyName, 0, 0>>,
                              <<RecordVerified(_certId, isValid)>>)
             /\ UNCHANGED <<registry, ledger, chain>>

\* verifyRecord that stamps the record with the time of the verification.
verifyRecordStamping(sender, _certId, _dataHash) ==
    LET status == verifyRecordStatus(_certId)
        record == records[_certId]
        isValid == (record.dataHash = _dataHash)
    IN  IF status # "ok"
        THEN Revert("verifyRecord", status)
        ELSE /\ records' = [records EXCEPT ![_certId].timestamp = blockTimestamp,
                                           ![_certId].blockNumber = blockNumber]
             /\ tx' = Receipt("verifyRecord", "ok",
                              <<isValid, record.issuer, record.issuerName,
                                record.timestamp, record.blockNumber>>,
                              <<RecordVerified(_certId, isValid)>>)
             /\ UNCHANGED <<registry, certificateIds, totalRecords, chain>>

\* verifyRecord that accepts a record only while its issuer is authorized.
verifyRecordCheckingIssuer(sender, _certId, _dataHash) ==
    LET status == verifyRecordStatus(_certId)
        record == records[_certId]
        isValid == (record.dataHash = _dataHash) /\ authorizedIssuers[record.issuer]
    IN  IF status # "ok"
        THEN Revert("verifyRecord", status)
        ELSE /\ tx' = Receipt("verifyRecord", "ok",
                              <<isValid, record.issuer, record.issuerName,
                                record.timestamp, record.blockNumber>>,
                              <<RecordVerified(_certId, isValid)>>)
             /\ UNCHANGED <<registry, ledger, chain>>

\* verifyRecord that logs every verification as valid.
verifyRecordLoggingValid(sender, _certId, _dataHash) ==
    LET status == verifyRecordStatus(_certId)
        record == records[_certId]
        isValid == (record.dataHash = _dataHash)
    IN  IF status # "ok"
        THEN Revert("verifyRecord", status)
        ELSE /\ tx' = Receipt("verifyRecord", "ok",
                              <<isValid, record.issuer, record.issuerName,
                                record.timestamp, record.blockNumber>>,
                              <<RecordVerified(_certId, TRUE)>>)
             /\ UNCHANGED <<registry, ledger, chain>>

verifyRecord(sender, _certId, _dataHash) ==
    LET status == verifyRecordStatus(_certId)
        record == records[_certId]
        isValid == (record.dataHash = _dataHash)
    IN  IF status # "ok"
        THEN Revert("verifyRecord", status)
        ELSE /\ tx' = Receipt("verifyRecord", "ok",
                              <<isValid, record.issuer, record.issuerName,
                                record.timestamp, record.blockNumber>>,
                              <<RecordVerified(_certId, isValid)>>)
             /\ UNCHANGED <<registry, ledger, chain>>

\* ------------------------------------------------------------------------
\* Execution environment
\* ------------------------------------------------------------------------

\* The chain moves to the next block: block.number grows by one and
\* block.timestamp by one block interval.
NewBlock ==
    /\ blockNumber < MaxBlock
    /\ blockNumber' = blockNumber + 1
    /\ blockTimestamp' = blockTimestamp + 1
    /\ UNCHANGED <<registry, ledger, tx, alumniData, requests, check, eventLog>>

\* ------------------------------------------------------------------------
\* Specification of the contract: three accounts and one certificate id
\* ------------------------------------------------------------------------

Init ==
    /\ blockNumber = 1
    /\ blockTimestamp = DeployTime
    /\ constructor(Deployer, DeployName)
    /\ alumniData = NoFields
    /\ requests = [r \in RequestIds |-> IdleRequest]
    /\ check = IdleCheck
    /\ eventLog = <<>>

AuthorizeIssuer ==
    \E sender \in Accounts, _issuer \in Address, _name \in InstitutionNames :
        /\ authorizeIssuer(sender, _issuer, _name)
        /\ emit
        /\ UNCHANGED <<alumniData, requests, check>>

RevokeIssuer ==
    \E sender \in Accounts, _issuer \in Address :
        /\ revokeIssuer(sender, _issuer)
        /\ emit
        /\ UNCHANGED <<alumniData, requests, check>>

TransferOwnership ==
    \E sender \in Accounts, _newOwner \in Address :
        /\ transferOwnership(sender, _newOwner)
        /\ emit
        /\ UNCHANGED <<alumniData, requests, check>>

AddAlumniRecord ==
    \E sender \in Accounts, _certId \in {EmptyString, <<1>>}, _dataHash \in DataHashes :
        /\ addAlumniRecord(sender, _certId, _dataHash)
        /\ emit
        /\ UNCHANGED <<alumniData, requests, check>>

VerifyRecord ==
    \E sender \in Accounts, _certId \in {EmptyString, <<1>>}, _dataHash \in DataHashes :
        /\ verifyRecord(sender, _certId, _dataHash)
        /\ emit
        /\ UNCHANGED <<alumniData, requests, check>>

Next ==
    \/ AuthorizeIssuer
    \/ RevokeIssuer
    \/ TransferOwnership
    \/ AddAlumniRecord
    \/ VerifyRecord
    \/ NewBlock

Spec == Init /\ [][Next]_vars

\* ------------------------------------------------------------------------
\* Specification of the ledger: two accounts and two certificate ids
\* ------------------------------------------------------------------------

LedgerAccounts == {"owner", "issuer1"}

LedgerHashes == {ZeroHash, keccak256(<<1>>)}

LedgerAuthorizeIssuer ==
    \E sender \in LedgerAccounts, _issuer \in LedgerAccounts \cup {ZeroAddress},
       _name \in InstitutionNames :
        /\ authorizeIssuer(sender, _issuer, _name)
        /\ emit
        /\ UNCHANGED <<alumniData, requests, check>>

LedgerRevokeIssuer ==
    \E sender \in LedgerAccounts, _issuer \in LedgerAccounts \cup {ZeroAddress} :
        /\ revokeIssuer(sender, _issuer)
        /\ emit
        /\ UNCHANGED <<alumniData, requests, check>>

LedgerTransferOwnership ==
    \E sender \in LedgerAccounts, _newOwner \in LedgerAccounts \cup {ZeroAddress} :
        /\ transferOwnership(sender, _newOwner)
        /\ emit
        /\ UNCHANGED <<alumniData, requests, check>>

LedgerAddAlumniRecord ==
    \E sender \in LedgerAccounts, _certId \in CertIds, _dataHash \in LedgerHashes :
        /\ addAlumniRecord(sender, _certId, _dataHash)
        /\ emit
        /\ UNCHANGED <<alumniData, requests, check>>

LedgerVerifyRecord ==
    \E sender \in LedgerAccounts, _certId \in CertIds, _dataHash \in DataHashes :
        /\ verifyRecord(sender, _certId, _dataHash)
        /\ emit
        /\ UNCHANGED <<alumniData, requests, check>>

NextLedger ==
    \/ LedgerAuthorizeIssuer
    \/ LedgerRevokeIssuer
    \/ LedgerTransferOwnership
    \/ LedgerAddAlumniRecord
    \/ LedgerVerifyRecord
    \/ NewBlock

SpecLedger == Init /\ [][NextLedger]_vars

\* ------------------------------------------------------------------------
\* Specification of hash-based verification: the deployer stores hashes of
\* plaintext fields, anyone presents plaintext fields for verification
\* ------------------------------------------------------------------------

\* generateDataHash of every plaintext, computed once.
HashOf == [f \in FieldTuples |->
             generateDataHash(f[1], f[2], f[3], f[4], f[5], f[6])]

HashAddAlumniRecord ==
    \E _certId \in {<<1>>}, f \in FieldTuples :
        /\ addAlumniRecord(Deployer, _certId, HashOf[f])
        /\ emit
        /\ UNCHANGED <<alumniData, requests, check>>

HashVerifyRecord ==
    \E sender \in {"issuer1"}, _certId \in {<<1>>}, g \in FieldTuples :
        /\ verifyRecord(sender, _certId, HashOf[g])
        /\ alumniData' = g
        /\ emit
        /\ UNCHANGED <<requests, check>>

NextHash ==
    \/ HashAddAlumniRecord
    \/ HashVerifyRecord

SpecHash == Init /\ [][NextHash]_vars

\* ------------------------------------------------------------------------
\* Specification of field boundaries: plaintexts whose filled fields are
\* two neighbours, with strings long enough to move the boundary
\* ------------------------------------------------------------------------

SplitStrings == {EmptyString, <<1>>, <<1, 2>>, <<2, 1>>}

SplitTuples ==
    {f \in [1..6 -> SplitStrings] :
        \E i \in 1..5 : \A j \in (1..6) \ {i, i + 1} : f[j] = EmptyString}

SplitHashOf == [f \in SplitTuples |->
                  generateDataHash(f[1], f[2], f[3], f[4], f[5], f[6])]

SplitAddAlumniRecord ==
    \E _certId \in {<<1>>}, f \in SplitTuples :
        /\ addAlumniRecord(Deployer, _certId, SplitHashOf[f])
        /\ emit
        /\ UNCHANGED <<alumniData, requests, check>>

SplitVerifyRecord ==
    \E sender \in {"issuer1"}, _certId \in {<<1>>}, g \in SplitTuples :
        /\ verifyRecord(sender, _certId, SplitHashOf[g])
        /\ alumniData' = g
        /\ emit
        /\ UNCHANGED <<requests, check>>

NextSplit ==
    \/ SplitAddAlumniRecord
    \/ SplitVerifyRecord

SpecSplit == Init /\ [][NextSplit]_vars

\* ------------------------------------------------------------------------
\* Specification of the backend: POST /api/admin/add requests handled
\* concurrently, their transactions signed by the admin wallet
\* ------------------------------------------------------------------------

\* The wallet of ADMIN_PRIVATE_KEY: the deployer of the contract.
Signer == Deployer

\* The graduation years parseInt reads as a year from 1950 to five years
\* from now.
YearsInRange == {<<2>>}

\* The bodies posted: a name, a roll number, a degree and a branch, a
\* graduation year that is missing, out of range or in range, and a certId
\* that is missing or present.
AddBodies ==
    {f \in [1..6 -> FieldStrings] :
        /\ f[1] # EmptyString
        /\ f[2] = <<1>> /\ f[3] = <<1>> /\ f[4] = <<1>>
        /\ f[6] # <<2>>}

\* validateAlumniData of hashUtils.js: the fields that have an error.
validateAlumniData(data) ==
    LET errors ==
            {k \in {"name", "rollNumber", "degree", "branch", "certId"} :
                Len(data[k]) = 0}
            \cup (IF Len(data.graduationYear) = 0 THEN {"graduationYear"}
                  ELSE IF data.graduationYear \notin YearsInRange
                  THEN {"graduationYear"}
                  ELSE {})
    IN  [isValid |-> errors = {}, errors |-> errors]

Response(_status, _message, _error) ==
    [status |-> _status, message |-> _message, error |-> _error]

\* router.post("/add"), up to the first await: the body is validated.
PostAdd(r) ==
    /\ requests[r].pc = "idle"
    /\ \E body \in AddBodies :
          LET validation == validateAlumniData(AlumniDataOf(body))
          IN  requests' = [requests EXCEPT ![r] =
                  IF ~validation.isValid
                  THEN [@ EXCEPT !.pc = "done", !.body = body,
                                 !.response = Response(400, "Validation failed", "")]
                  ELSE [@ EXCEPT !.pc = "recordExists", !.body = body]]
    /\ UNCHANGED <<registry, ledger, chain, tx, alumniData, check, eventLog>>

\* await contractReadOnly.recordExists(certId), and the hash generated
\* when the certId is new.
AddRecordExists(r) ==
    /\ requests[r].pc = "recordExists"
    /\ LET exists == recordExists(requests[r].body[6])
       IN  requests' = [requests EXCEPT ![r] =
               IF exists
               THEN [@ EXCEPT !.pc = "done",
                              !.response = Response(409, "Certificate ID already exists", "")]
               ELSE [@ EXCEPT !.pc = "addAlumniRecord",
                              !.dataHash = hashUtils_generateDataHash(
                                               AlumniDataOf(requests[r].body))]]
    /\ UNCHANGED <<registry, ledger, chain, tx, alumniData, check, eventLog>>

\* await contract.addAlumniRecord(certId, dataHash) and await tx.wait():
\* the transaction runs on the chain, and the response follows its receipt.
AddTransaction(r) ==
    /\ requests[r].pc = "addAlumniRecord"
    /\ addAlumniRecord(Signer, requests[r].body[6], requests[r].dataHash)
    /\ requests' = [requests EXCEPT ![r] =
           [@ EXCEPT !.pc = "done",
                     !.response =
                         IF tx'.status = "ok"
                         THEN Response(201, "Alumni record added successfully", "")
                         ELSE IF tx'.status = "Not an authorized issuer"
                         THEN Response(403, "Not authorized to add records", "")
                         ELSE Response(500, "Failed to add alumni record", tx'.status)]]
    /\ emit
    /\ UNCHANGED <<alumniData, check>>

\* The wallet cannot pay for the transaction: it is not sent.
AddInsufficientFunds(r) ==
    /\ requests[r].pc = "addAlumniRecord"
    /\ requests' = [requests EXCEPT ![r] =
           [@ EXCEPT !.pc = "done",
                     !.response = Response(402, "Insufficient funds for gas fees", "")]]
    /\ UNCHANGED <<registry, ledger, chain, tx, alumniData, check, eventLog>>

BackendPostAdd == \E r \in RequestIds : PostAdd(r)

BackendAddRecordExists == \E r \in RequestIds : AddRecordExists(r)

BackendAddTransaction == \E r \in RequestIds : AddTransaction(r)

BackendAddInsufficientFunds == \E r \in RequestIds : AddInsufficientFunds(r)

NextBackend ==
    \/ BackendPostAdd
    \/ BackendAddRecordExists
    \/ BackendAddTransaction
    \/ BackendAddInsufficientFunds
    \/ NewBlock

SpecBackend == Init /\ [][NextBackend]_vars

\* ------------------------------------------------------------------------
\* The backend: POST /api/verify/check (routes/verify.js)
\* ------------------------------------------------------------------------

\* The alumniData posted: two names, the other fields filled in, and a
\* certId of its own that is missing or present.
CheckData ==
    {f \in [1..6 -> FieldStrings] :
        /\ f[1] # EmptyString
        /\ f[2] = <<1>> /\ f[3] = <<1>> /\ f[4] = <<1>>
        /\ f[5] = <<2>>
        /\ f[6] # <<2>>}

\* { ...alumniData, certId }
WithCertId(data, certId) == [data EXCEPT ![6] = certId]

CheckResponse(_status, _success, _valid, _message, _data) ==
    [status |-> _status, success |-> _success, valid |-> _valid,
     message |-> _message, data |-> _data]

\* router.post("/check"), up to the first await: the certId must be there.
PostCheck ==
    /\ check.pc = "idle"
    /\ \E certId \in CertIds, data \in CheckData \cup {Null} :
          check' = IF certId = EmptyString
                   THEN [pc |-> "done", certId |-> certId, alumniData |-> data,
                         response |-> CheckResponse(400, FALSE, FALSE,
                                                    "Certificate ID is required", NoData)]
                   ELSE [pc |-> "recordExists", certId |-> certId, alumniData |-> data,
                         response |-> NoCheckResponse]
    /\ UNCHANGED <<registry, ledger, chain, tx, alumniData, requests, eventLog>>

\* await contractReadOnly.recordExists(certId)
CheckRecordExists ==
    /\ check.pc = "recordExists"
    /\ LET exists == recordExists(check.certId)
       IN  check' = IF ~exists
                    THEN [check EXCEPT !.pc = "done",
                                       !.response = CheckResponse(404, FALSE, FALSE,
                                                        "Certificate not found", NoData)]
                    ELSE [check EXCEPT !.pc = "getRecord"]
    /\ UNCHANGED <<registry, ledger, chain, tx, alumniData, requests, eventLog>>

\* await contractReadOnly.getRecord(certId), the comparison of the hashes
\* and the response; this route hashes the alumniData as it is posted.
CheckGetRecordBodyCertId ==
    /\ check.pc = "getRecord"
    /\ LET record == getRecord(check.certId)
           computedHash == hashUtils_generateDataHash(AlumniDataOf(check.alumniData))
           isValid == IF check.alumniData # Null THEN computedHash = record[1] ELSE TRUE
       IN  check' = [check EXCEPT
               !.pc = "done",
               !.response = CheckResponse(200, TRUE, isValid, "",
                   [certId |-> check.certId, issuer |-> record[2],
                    issuerName |-> record[3], timestamp |-> record[4],
                    blockNumber |-> record[5], isValid |-> isValid])]
    /\ UNCHANGED <<registry, ledger, chain, tx, alumniData, requests, eventLog>>

CheckGetRecord ==
    /\ check.pc = "getRecord"
    /\ LET record == getRecord(check.certId)
           computedHash == hashUtils_generateDataHash(
                               AlumniDataOf(WithCertId(check.alumniData, check.certId)))
           isValid == IF check.alumniData # Null THEN computedHash = record[1] ELSE TRUE
       IN  check' = [check EXCEPT
               !.pc = "done",
               !.response = CheckResponse(200, TRUE, isValid, "",
                   [certId |-> check.certId, issuer |-> record[2],
                    issuerName |-> record[3], timestamp |-> record[4],
                    blockNumber |-> record[5], isValid |-> isValid])]
    /\ UNCHANGED <<registry, ledger, chain, tx, alumniData, requests, eventLog>>

\* generateDataHash of the contract on the six fields of a plaintext.
generateDataHashOf(f) == generateDataHash(f[1], f[2], f[3], f[4], f[5], f[6])

\* The owner adds records of plaintexts and hands the ownership over, and
\* a verifier presents a plaintext to verifyRecord of the contract.
CheckAddAlumniRecord ==
    \E f \in CheckData :
        /\ addAlumniRecord(owner, f[6], generateDataHashOf(f))
        /\ emit
        /\ UNCHANGED <<alumniData, requests, check>>

CheckVerifyRecord ==
    \E _certId \in CertIds, g \in CheckData :
        /\ verifyRecord("issuer1", _certId, generateDataHashOf(WithCertId(g, _certId)))
        /\ alumniData' = WithCertId(g, _certId)
        /\ emit
        /\ UNCHANGED <<requests, check>>

CheckTransferOwnership ==
    \E _newOwner \in {"issuer1"} :
        /\ transferOwnership(Deployer, _newOwner)
        /\ emit
        /\ UNCHANGED <<alumniData, requests, check>>

NextCheck ==
    \/ PostCheck
    \/ CheckRecordExists
    \/ CheckGetRecord
    \/ CheckAddAlumniRecord
    \/ CheckVerifyRecord
    \/ CheckTransferOwnership

SpecCheck == Init /\ [][NextCheck]_vars

\* ========================================================================
\* Properties
\* ========================================================================

\* C1 (SpecLedger).  certId uniqueness: an addAlumniRecord call by an
\* authorized issuer with a non-empty certId and a non-zero dataHash
\* succeeds and creates the record when the certId has no record, and fails
\* with 'Certificate ID already exists', leaving the ledger as it is, when
\* it has one; a created record stays, so the second of two such calls
\* fails.  In every state each certId occurs at most once in certificateIds
\* and it occurs there exactly when its record exists.
IndexUnique ==
    /\ \A i, j \in DOMAIN certificateIds :
          certificateIds[i] = certificateIds[j] => i = j
    /\ \A c \in CertIds :
          records[c].exists <=> (\E i \in DOMAIN certificateIds : certificateIds[i] = c)

C1_CertIdUnique ==
    [][/\ \A s \in Accounts, c \in CertIds, h \in DataHashes :
            (/\ tx'.op = "addAlumniRecord"
             /\ authorizedIssuers[s]
             /\ c # EmptyString
             /\ h # ZeroHash
             /\ addAlumniRecord(s, c, h))
            => IF records[c].exists
               THEN /\ tx'.status = "Certificate ID already exists"
                    /\ UNCHANGED ledger
               ELSE /\ tx'.status = "ok"
                    /\ records'[c].exists
       /\ \A c \in CertIds : records[c].exists => records'[c].exists
       /\ IndexUnique
       /\ IndexUnique']_vars

\* Both certificate ids have been created, by different issuers, and a
\* further addAlumniRecord was refused as a duplicate.
C1_Witness ==
    /\ tx.op = "addAlumniRecord"
    /\ tx.status = "Certificate ID already exists"
    /\ Len(certificateIds) = 2
    /\ records[<<1>>].issuer # records[<<2>>].issuer

\* C2 (Spec).  Issuer gating: addAlumniRecord by an account that is not an
\* authorized issuer fails with 'Not an authorized issuer' for every certId
\* and dataHash and leaves the ledger unchanged; the issuer of a record
\* that is being created is authorized in the state the call runs in.
C2_IssuerGating ==
    [][/\ \A s \in Accounts, c \in CertIds, h \in DataHashes :
            (/\ tx'.op = "addAlumniRecord"
             /\ ~authorizedIssuers[s]
             /\ addAlumniRecord(s, c, h))
            => /\ tx'.status = "Not an authorized issuer"
               /\ UNCHANGED ledger
       /\ \A c \in CertIds :
            (~records[c].exists /\ records'[c].exists)
            => authorizedIssuers[records'[c].issuer]]_vars

\* An issuer created a record, was revoked, and its next addAlumniRecord
\* was refused.
C2_Witness ==
    /\ tx.op = "addAlumniRecord"
    /\ tx.status = "Not an authorized issuer"
    /\ \E c \in CertIds :
          records[c].exists /\ ~authorizedIssuers[records[c].issuer]

\* C3 (SpecLedger).  Write-once records: no step changes any field of a
\* record that exists.
C3_WriteOnce ==
    [][\A c \in CertIds : records[c].exists => records'[c] = records[c]]_vars

\* A record created in an earlier block, whose issuer has since been
\* revoked, after ownership moved on and the record was verified.
C3_Witness ==
    /\ tx.op = "verifyRecord"
    /\ tx.status = "ok"
    /\ owner # Deployer
    /\ \E c \in CertIds :
          /\ records[c].exists
          /\ records[c].blockNumber < blockNumber
          /\ ~authorizedIssuers[records[c].issuer]

\* C4 (Spec).  The owner is an authorized issuer in every reachable state.
C4_OwnerAuthorized == authorizedIssuers[owner]

\* Ownership has been transferred, the deployer revoked, and a revocation
\* of the new owner refused.
C4_Witness ==
    /\ owner # Deployer
    /\ ~authorizedIssuers[Deployer]
    /\ tx.op = "revokeIssuer"
    /\ tx.status = "Cannot revoke owner"

\* C5 (Spec).  Owner-only registry mutation: authorizeIssuer, revokeIssuer
\* and transferOwnership called by an account other than the owner fail with
\* 'Only owner can call this function' for every argument and leave owner,
\* authorizedIssuers and issuerNames unchanged; addAlumniRecord and
\* verifyRecord change none of the three, whoever calls them.
C5_OwnerOnly ==
    [][/\ tx'.op = "authorizeIssuer" =>
            \A s \in Accounts \ {owner}, a \in Address, n \in InstitutionNames :
                authorizeIssuer(s, a, n)
                => /\ tx'.status = "Only owner can call this function"
                   /\ UNCHANGED registry
       /\ tx'.op = "revokeIssuer" =>
            \A s \in Accounts \ {owner}, a \in Address :
                revokeIssuer(s, a)
                => /\ tx'.status = "Only owner can call this function"
                   /\ UNCHANGED registry
       /\ tx'.op = "transferOwnership" =>
            \A s \in Accounts \ {owner}, a \in Address :
                transferOwnership(s, a)
                => /\ tx'.status = "Only owner can call this function"
                   /\ UNCHANGED registry
       /\ tx'.op \in {"addAlumniRecord", "verifyRecord"} => UNCHANGED registry]_vars

\* After a hand-over of ownership, a registry call of a non-owner was
\* refused.
C5_Witness ==
    /\ owner # Deployer
    /\ tx.op \in {"authorizeIssuer", "revokeIssuer", "transferOwnership"}
    /\ tx.status = "Only owner can call this function"

\* C6 (SpecHash).  Hash-based verification: when verifyRecord has been
\* called with the hash of the presented fields alumniData, for every
\* plaintext f whose hash the record stores, isValid is true exactly when f
\* and alumniData have the same undelimited concatenation, and it is false
\* when they differ in exactly one field.
DifferInOneField(f, g) == Cardinality({i \in 1..6 : f[i] # g[i]}) = 1

C6_HashVerification ==
    (tx.op = "verifyRecord" /\ tx.status = "ok") =>
        \A f \in FieldTuples :
            records[tx.logs[1].certId].dataHash = HashOf[f] =>
                /\ tx.ret[1] <=> (encodePacked(f) = encodePacked(alumniData))
                /\ DifferInOneField(f, alumniData) => ~tx.ret[1]

\* A verification that succeeded with fields split differently from the
\* ones the record was created from.
C6_Witness ==
    /\ tx.op = "verifyRecord"
    /\ tx.status = "ok"
    /\ tx.ret[1]
    /\ \E f \in FieldTuples :
          /\ records[tx.logs[1].certId].dataHash = HashOf[f]
          /\ f # alumniData
          /\ f[1] # EmptyString

\* C7 (SpecLedger).  verifyRecord on an existing certId succeeds for every
\* candidate hash and returns isValid = (candidate = stored dataHash) with
\* the stored issuer, issuerName and sequence marker, match or not.
C7_VerifyResult ==
    [][\A s \in Accounts, c \in CertIds, h \in DataHashes :
          (/\ tx'.op = "verifyRecord"
           /\ records[c].exists
           /\ verifyRecord(s, c, h))
          => /\ tx'.status = "ok"
             /\ tx'.ret = <<h = getRecord(c)[1], getRecord(c)[2], getRecord(c)[3],
                            getRecord(c)[4], getRecord(c)[5]>>]_vars

\* A verification with a hash that does not match returned normally, with
\* the attribution of the record.
C7_Witness ==
    /\ tx.op = "verifyRecord"
    /\ tx.status = "ok"
    /\ ~tx.ret[1]
    /\ tx.ret[2] \in Accounts

\* C8 (SpecLedger).  Failure atomicity: a call that fails leaves owner,
\* authorizedIssuers, issuerNames, records, certificateIds and totalRecords
\* unchanged, returns nothing and emits no event.
Failed(receipt) == receipt.status # "ok"

C8_FailureAtomic ==
    [][Failed(tx') =>
          /\ UNCHANGED <<registry, ledger>>
          /\ tx'.ret = <<>>
          /\ tx'.logs = <<>>]_vars

\* A failing call on a ledger that already holds a record.
C8_Witness ==
    /\ Failed(tx)
    /\ tx.status = "Data hash cannot be empty"
    /\ totalRecords = 1

\* C9 (Spec).  Issuer-name snapshot: the issuerName of a record being
\* created is the name registered for its issuer at that moment; from then
\* on getRecord returns that same issuerName in every state, and verifyRecord
\* returns it too, whatever happens to the issuer's authorization and name.
C9_NameSnapshot ==
    [][\A c \in CertIds :
          /\ (~records[c].exists /\ records'[c].exists)
             => getRecord(c)'[3] = issuerNames[records'[c].issuer]
          /\ records[c].exists => getRecord(c)'[3] = getRecord(c)[3]
          /\ (/\ tx'.op = "verifyRecord"
              /\ tx'.status = "ok"
              /\ tx'.logs[1].certId = c)
             => tx'.ret[3] = getRecord(c)'[3]]_vars

\* The issuer of a record is authorized again, under another name than the
\* one the record carries.
C9_Witness ==
    \E c \in CertIds :
        /\ records[c].exists
        /\ authorizedIssuers[records[c].issuer]
        /\ issuerNames[records[c].issuer] # getRecord(c)[3]
        /\ records[c].issuer # owner

\* C10 (Spec).  Ownership hand-over: in the state a successful
\* transferOwnership(X) by owner O leaves, authorizeIssuer by X passes all
\* its checks for every non-null identity that is not authorized, and
\* authorizeIssuer, revokeIssuer and transferOwnership by O are refused with
\* 'Only owner can call this function' for every argument.
C10_HandOver ==
    [][\A O \in Accounts, X \in Address :
          (/\ tx'.op = "transferOwnership"
           /\ tx'.status = "ok"
           /\ transferOwnership(O, X))
          => /\ \A a \in Address :
                  (a # ZeroAddress /\ ~authorizedIssuers'[a])
                  => authorizeIssuerStatus(X, a)' = "ok"
             /\ \A a \in Address :
                  /\ authorizeIssuerStatus(O, a)' = "Only owner can call this function"
                  /\ revokeIssuerStatus(O, a)' = "Only owner can call this function"
                  /\ transferOwnershipStatus(O, a)' = "Only owner can call this function"]_vars

\* The new owner has authorized an issuer after the hand-over.
C10_Witness ==
    /\ owner # Deployer
    /\ tx.op = "authorizeIssuer"
    /\ tx.status = "ok"
    /\ authorizedIssuers = [a \in Address |-> a # ZeroAddress]

\* C11 (SpecLedger).  Index/count consistency: in every state the length of
\* getAllCertificateIds equals getTotalRecords and equals the number of
\* certIds for which recordExists is true, and a record exists exactly when
\* its certId is in the index; a successful addAlumniRecord appends its
\* certId as the last element and no other step changes the index, so the
\* index of an earlier state is a prefix of the index of every later state.
IndexConsistent ==
    /\ Len(getAllCertificateIds) = getTotalRecords
    /\ getTotalRecords = Cardinality({c \in CertIds : recordExists(c)})
    /\ \A c \in CertIds :
          recordExists(c) <=>
              \E i \in DOMAIN getAllCertificateIds : getAllCertificateIds[i] = c

IsPrefix(s, t) == Len(s) <= Len(t) /\ SubSeq(t, 1, Len(s)) = s

C11_IndexConsistent ==
    [][/\ IndexConsistent
       /\ IndexConsistent'
       /\ IsPrefix(getAllCertificateIds, getAllCertificateIds')
       /\ IF tx'.op = "addAlumniRecord" /\ tx'.status = "ok" /\ ledger' # ledger
          THEN getAllCertificateIds' =
                   Append(getAllCertificateIds, tx'.logs[1].certId)
          ELSE getAllCertificateIds' = getAllCertificateIds]_vars

\* Two records, created in the order <<2>> then <<1>>, read after a later
\* operation.
C11_Witness ==
    /\ getAllCertificateIds = << <<2>>, <<1>> >>
    /\ getTotalRecords = 2
    /\ tx.op = "revokeIssuer"
    /\ tx.status = "ok"

\* C12 (SpecLedger).  Record lifecycle absent -> exists: a certId for which
\* recordExists is true in a state has it true in the next state, whatever
\* the step; so no sequence of operations returns a record to absent.
C12_ExistsTerminal ==
    [][\A c \in CertIds : recordExists(c) => recordExists(c)']_vars

\* Both records exist, one of them created by an issuer that has just been
\* revoked.
C12_Witness ==
    /\ recordExists(<<1>>)
    /\ recordExists(<<2>>)
    /\ tx.op = "revokeIssuer"
    /\ tx.status = "ok"
    /\ \E c \in CertIds : records[c].issuer = tx.logs[1].issuer

\* C13 (SpecLedger).  addAlumniRecord success: when an authorized issuer
\* calls it with a non-empty certId that has no record and a non-zero hash,
\* then getRecord(certId) returns that hash, the caller, the name registered
\* for the caller, the current block's timestamp and number, and exists =
\* true; the certId is appended to the index, the count grows by one, the
\* call returns the stored timestamp and block number, one AlumniRecordAdded
\* event carries the same fields, and no other record and nothing of the
\* registry changes.
C13_AddSuccess ==
    [][\A s \in Accounts, c \in CertIds, h \in DataHashes :
          (/\ tx'.op = "addAlumniRecord"
           /\ isAuthorizedIssuer(s)
           /\ c # EmptyString
           /\ ~recordExists(c)
           /\ h # ZeroHash
           /\ addAlumniRecord(s, c, h))
          => /\ tx'.status = "ok"
             /\ getRecord(c)' = <<h, s, getIssuerName(s),
                                  blockTimestamp, blockNumber, TRUE>>
             /\ getAllCertificateIds' = Append(getAllCertificateIds, c)
             /\ getTotalRecords' = getTotalRecords + 1
             /\ tx'.ret = <<TRUE, getRecord(c)'[4], getRecord(c)'[5]>>
             /\ tx'.logs = <<AlumniRecordAdded(c, h, s, getRecord(c)'[3],
                                               getRecord(c)'[4], getRecord(c)'[5])>>
             /\ \A d \in CertIds \ {c} : records'[d] = records[d]
             /\ UNCHANGED registry]_vars

\* An issuer that is not the owner has just created the second record,
\* under the name it is registered with.
C13_Witness ==
    /\ tx.op = "addAlumniRecord"
    /\ tx.status = "ok"
    /\ getTotalRecords = 2
    /\ tx.logs[1].issuer # owner
    /\ tx.logs[1].issuerName \in InstitutionNames
    /\ tx.ret[3] = MaxBlock

\* C14 (SpecLedger).  addAlumniRecord input validation, as the contract
\* does it: a call by an authorized issuer with an empty certId or a zero
\* dataHash fails and creates no record; it fails with 'Certificate ID
\* cannot be empty' or 'Data hash cannot be empty' when the certId has no
\* record, and with 'Certificate ID already exists' when it has one.
InvalidInput == {"Certificate ID cannot be empty", "Data hash cannot be empty"}

C14_InputValidation ==
    [][\A s \in Accounts, c \in CertIds, h \in DataHashes :
          (/\ tx'.op = "addAlumniRecord"
           /\ isAuthorizedIssuer(s)
           /\ (c = EmptyString \/ h = ZeroHash)
           /\ addAlumniRecord(s, c, h))
          => /\ IF recordExists(c)
                THEN tx'.status = "Certificate ID already exists"
                ELSE tx'.status \in InvalidInput
             /\ UNCHANGED ledger]_vars

\* C14 as stated: such a call fails with InvalidInput whether or not the
\* certId already has a record.
C14_AsStated ==
    [][\A s \in Accounts, c \in CertIds, h \in DataHashes :
          (/\ tx'.op = "addAlumniRecord"
           /\ isAuthorizedIssuer(s)
           /\ (c = EmptyString \/ h = ZeroHash)
           /\ addAlumniRecord(s, c, h))
          => /\ tx'.status \in InvalidInput
             /\ UNCHANGED ledger]_vars

\* An empty certId was refused on a ledger that holds both records.
C14_Witness ==
    /\ tx.op = "addAlumniRecord"
    /\ tx.status = "Certificate ID cannot be empty"
    /\ getTotalRecords = 2

\* C15 (SpecLedger).  verifyRecord on a certId that has no record fails with
\* 'Certificate ID does not exist' for every candidate hash and every
\* caller, emits no RecordVerified event and changes neither the registry
\* nor the ledger.
C15_VerifyNotFound ==
    [][\A s \in Accounts, c \in CertIds, h \in DataHashes :
          (/\ tx'.op = "verifyRecord"
           /\ ~recordExists(c)
           /\ verifyRecord(s, c, h))
          => /\ tx'.status = "Certificate ID does not exist"
             /\ tx'.ret = <<>>
             /\ tx'.logs = <<>>
             /\ UNCHANGED <<registry, ledger>>]_vars

\* A verification was refused on a ledger whose only record is <<2>>.
C15_Witness ==
    /\ tx.op = "verifyRecord"
    /\ tx.status = "Certificate ID does not exist"
    /\ getAllCertificateIds = << <<2>> >>

\* C16 (SpecLedger).  getRecord returns, for a certId with no record, the
\* all-default record (zero hash, null issuer, empty name, zero timestamp
\* and block number, exists = false), and for a certId with a record the
\* stored fields (a non-zero hash, an issuer account, a sequence marker of a
\* mined block) with exists = true; in every state recordExists(certId),
\* getRecord(certId).exists and membership of certId in
\* getAllCertificateIds agree.
DefaultReturn == <<ZeroHash, ZeroAddress, EmptyName, 0, 0, FALSE>>

C16_GetRecord ==
    \A c \in CertIds :
        /\ ~recordExists(c) => getRecord(c) = DefaultReturn
        /\ recordExists(c) =>
              /\ getRecord(c) = <<records[c].dataHash, records[c].issuer,
                                  records[c].issuerName, records[c].timestamp,
                                  records[c].blockNumber, TRUE>>
              /\ getRecord(c)[1] \in DataHashes \ {ZeroHash}
              /\ getRecord(c)[2] \in Accounts
              /\ getRecord(c)[4] \in DeployTime..blockTimestamp
              /\ getRecord(c)[5] \in 1..blockNumber
        /\ recordExists(c) = getRecord(c)[6]
        /\ getRecord(c)[6] =
              (\E i \in DOMAIN getAllCertificateIds : getAllCertificateIds[i] = c)

\* One certId has a record, created by an issuer since revoked, and the
\* other has none.
C16_Witness ==
    /\ recordExists(<<1>>)
    /\ ~recordExists(<<2>>)
    /\ getRecord(<<1>>)[2] = "issuer1"
    /\ ~isAuthorizedIssuer("issuer1")
    /\ getRecord(<<2>>) = DefaultReturn

\* C17 (Spec).  authorizeIssuer success: when the owner calls
\* authorizeIssuer(identity, name) on a non-null identity that is not
\* authorized, the call succeeds, isAuthorizedIssuer(identity) is true and
\* getIssuerName(identity) is name afterwards, whatever name was stored
\* before; one IssuerAuthorized(identity, name) event is emitted; the owner,
\* the authorization and name of every other identity and the ledger are
\* unchanged.
C17_AuthorizeSuccess ==
    [][\A s \in Accounts, a \in Address, n \in InstitutionNames :
          (/\ tx'.op = "authorizeIssuer"
           /\ s = owner
           /\ a # ZeroAddress
           /\ ~isAuthorizedIssuer(a)
           /\ authorizeIssuer(s, a, n))
          => /\ tx'.status = "ok"
             /\ isAuthorizedIssuer(a)'
             /\ getIssuerName(a)' = n
             /\ tx'.ret = <<>>
             /\ tx'.logs = <<IssuerAuthorized(a, n)>>
             /\ owner' = owner
             /\ \A b \in Address \ {a} :
                   /\ isAuthorizedIssuer(b)' = isAuthorizedIssuer(b)
                   /\ getIssuerName(b)' = getIssuerName(b)
             /\ UNCHANGED ledger]_vars

\* The deployer, revoked after handing ownership over, has just been
\* authorized again under a name that replaced the one of the deployment.
C17_Witness ==
    /\ tx.op = "authorizeIssuer"
    /\ tx.status = "ok"
    /\ tx.logs[1].issuer = Deployer
    /\ getIssuerName(Deployer) # DeployName
    /\ isAuthorizedIssuer(Deployer)

\* C18 (Spec).  authorizeIssuer failures by the owner: the call fails with
\* 'Invalid issuer address' when identity is the null identity and with
\* 'Issuer already authorized' when identity is authorized, the owner
\* itself included, for every name; the authorizations and the stored
\* names are unchanged.
C18_AuthorizeFailures ==
    [][\A s \in Accounts, a \in Address, n \in InstitutionNames :
          (/\ tx'.op = "authorizeIssuer"
           /\ s = owner
           /\ (a = ZeroAddress \/ isAuthorizedIssuer(a) \/ a = owner)
           /\ authorizeIssuer(s, a, n))
          => /\ tx'.status = IF a = ZeroAddress
                             THEN "Invalid issuer address"
                             ELSE "Issuer already authorized"
             /\ \A b \in Address : getIssuerName(b)' = getIssuerName(b)
             /\ UNCHANGED registry]_vars

\* An owner that never was given a name was refused as already authorized,
\* and still has no name.
C18_Witness ==
    /\ tx.op = "authorizeIssuer"
    /\ tx.status = "Issuer already authorized"
    /\ getIssuerName(owner) = EmptyName

\* C19 (Spec).  revokeIssuer success: when the owner revokes an authorized
\* identity other than itself, the call succeeds, isAuthorizedIssuer(identity)
\* is false afterwards, getIssuerName(identity) still returns the stored
\* name, every record, the index and the count are unchanged, the owner and
\* the entries of all other identities are unchanged, and one
\* IssuerRevoked(identity) event is emitted.
C19_RevokeSuccess ==
    [][\A s \in Accounts, a \in Address :
          (/\ tx'.op = "revokeIssuer"
           /\ s = owner
           /\ isAuthorizedIssuer(a)
           /\ a # owner
           /\ revokeIssuer(s, a))
          => /\ tx'.status = "ok"
             /\ ~isAuthorizedIssuer(a)'
             /\ getIssuerName(a)' = getIssuerName(a)
             /\ \A c \in CertIds : getRecord(c)' = getRecord(c)
             /\ UNCHANGED ledger
             /\ owner' = owner
             /\ \A b \in Address \ {a} :
                   /\ isAuthorizedIssuer(b)' = isAuthorizedIssuer(b)
                   /\ getIssuerName(b)' = getIssuerName(b)
             /\ tx'.logs = <<IssuerRevoked(a)>>]_vars

\* The issuer of a record has just been revoked and keeps its name, while
\* another issuer stays authorized.
C19_Witness ==
    /\ tx.op = "revokeIssuer"
    /\ tx.status = "ok"
    /\ \E c \in CertIds :
          /\ recordExists(c)
          /\ getRecord(c)[2] = tx.logs[1].issuer
          /\ getIssuerName(getRecord(c)[2]) # EmptyName
    /\ \E b \in Accounts \ {owner} : isAuthorizedIssuer(b)

\* C20 (Spec).  revokeIssuer failures by the owner: revokeIssuer(owner)
\* fails with 'Cannot revoke owner' in every state, and revokeIssuer on an
\* identity that is not authorized fails with 'Issuer not authorized'; in
\* both cases authorizedIssuers is unchanged.
C20_RevokeFailures ==
    [][\A s \in Accounts, a \in Address :
          (/\ tx'.op = "revokeIssuer"
           /\ s = owner
           /\ (a = owner \/ ~isAuthorizedIssuer(a))
           /\ revokeIssuer(s, a))
          => /\ tx'.status = IF a = owner
                             THEN "Cannot revoke owner"
                             ELSE "Issuer not authorized"
             /\ UNCHANGED authorizedIssuers]_vars

\* After a hand-over the new owner tried to revoke the deployer a second
\* time.
C20_Witness ==
    /\ tx.op = "revokeIssuer"
    /\ tx.status = "Issuer not authorized"
    /\ owner # Deployer
    /\ ~isAuthorizedIssuer(Deployer)
    /\ getIssuerName(Deployer) = DeployName

\* C21 (Spec).  transferOwnership success: when owner O calls
\* transferOwnership(X) with X non-null and different from O, the call
\* succeeds, the owner is X and X is an authorized issuer afterwards, the
\* stored name of X is what it was, O is still an authorized issuer with its
\* name unchanged, and no record, index entry, count or entry of another
\* identity changes.
C21_TransferSuccess ==
    [][\A O \in Accounts, X \in Address :
          (/\ tx'.op = "transferOwnership"
           /\ O = owner
           /\ X # ZeroAddress
           /\ X # O
           /\ transferOwnership(O, X))
          => /\ tx'.status = "ok"
             /\ owner' = X
             /\ isAuthorizedIssuer(X)'
             /\ getIssuerName(X)' = getIssuerName(X)
             /\ isAuthorizedIssuer(O)'
             /\ getIssuerName(O)' = getIssuerName(O)
             /\ \A b \in Address \ {X} :
                   /\ isAuthorizedIssuer(b)' = isAuthorizedIssuer(b)
                   /\ getIssuerName(b)' = getIssuerName(b)
             /\ UNCHANGED ledger]_vars

\* Ownership has just gone to an identity that never was given a name,
\* while the deployer keeps its authorization, its name and its record.
C21_Witness ==
    /\ tx.op = "transferOwnership"
    /\ tx.status = "ok"
    /\ getIssuerName(owner) = EmptyName
    /\ isAuthorizedIssuer(Deployer)
    /\ \E c \in CertIds : recordExists(c) /\ getRecord(c)[2] = Deployer

\* C22 (Spec).  transferOwnership failures by the owner: the call fails
\* with 'Invalid new owner address' when newIdentity is the null identity
\* and with 'Already the owner' when it is the current owner; the owner and
\* authorizedIssuers are unchanged.
C22_TransferFailures ==
    [][\A O \in Accounts, X \in Address :
          (/\ tx'.op = "transferOwnership"
           /\ O = owner
           /\ (X = ZeroAddress \/ X = O)
           /\ transferOwnership(O, X))
          => /\ tx'.status = IF X = ZeroAddress
                             THEN "Invalid new owner address"
                             ELSE "Already the owner"
             /\ UNCHANGED <<owner, authorizedIssuers>>]_vars

\* An owner that got ownership by a hand-over was refused a transfer to
\* itself.
C22_Witness ==
    /\ tx.op = "transferOwnership"
    /\ tx.status = "Already the owner"
    /\ owner # Deployer

\* C23 (Spec).  Single owner: in every state the owner is one account,
\* never the null identity; a step that changes the owner is a successful
\* transferOwnership, the calls that produce it are calls by the current
\* owner, and the new owner is the argument of the call.
C23_SingleOwner ==
    [][/\ owner \in Accounts
       /\ owner' \in Accounts
       /\ owner' # owner =>
             /\ tx'.op = "transferOwnership"
             /\ tx'.status = "ok"
             /\ \E X \in Address : transferOwnership(owner, X)
             /\ \A s \in Accounts, X \in Address :
                   transferOwnership(s, X) => (s = owner /\ X = owner')]_vars

\* Ownership has changed hands twice and is back with the deployer.
C23_Witness ==
    /\ tx.op = "transferOwnership"
    /\ tx.status = "ok"
    /\ owner = Deployer
    /\ \A a \in Accounts : isAuthorizedIssuer(a)

\* C24 (Spec).  Initial state: as long as no transaction has followed the
\* deployment by Deployer with institution name DeployName, the owner is
\* Deployer, Deployer is an authorized issuer named DeployName, no other
\* identity is authorized, no record exists, the index is empty,
\* getTotalRecords is 0, and the events emitted are exactly one
\* IssuerAuthorized(Deployer, DeployName).
C24_InitialState ==
    tx.op = "constructor" =>
        /\ owner = Deployer
        /\ isAuthorizedIssuer(Deployer)
        /\ getIssuerName(Deployer) = DeployName
        /\ \A a \in Address \ {Deployer} : ~isAuthorizedIssuer(a)
        /\ \A c \in CertIds : ~recordExists(c) /\ getRecord(c) = DefaultReturn
        /\ getAllCertificateIds = <<>>
        /\ getTotalRecords = 0
        /\ tx.status = "ok"
        /\ tx.logs = <<IssuerAuthorized(Deployer, DeployName)>>

\* The deployed contract before its first transaction, a block later.
C24_Witness ==
    /\ tx.op = "constructor"
    /\ blockNumber > 1

\* C25 (SpecLedger).  verifyRecord is observational: a successful
\* verifyRecord(certId, h) by any caller changes no record, no index entry,
\* no count and nothing of the registry; it emits exactly one event,
\* RecordVerified(certId, isValid), whose isValid is the value returned.
C25_VerifyObservational ==
    [][\A s \in Accounts, c \in CertIds, h \in DataHashes :
          (/\ tx'.op = "verifyRecord"
           /\ recordExists(c)
           /\ verifyRecord(s, c, h))
          => /\ UNCHANGED <<registry, ledger>>
             /\ \A d \in CertIds : getRecord(d)' = getRecord(d)
             /\ Len(tx'.logs) = 1
             /\ tx'.logs[1] = RecordVerified(c, tx'.ret[1])
             /\ tx'.ret[1] = (h = getRecord(c)[1])]_vars

\* The second of two records was verified with a hash that does not
\* match, and the event says so.
C25_Witness ==
    /\ tx.op = "verifyRecord"
    /\ tx.status = "ok"
    /\ tx.logs = <<RecordVerified(<<2>>, FALSE)>>
    /\ getTotalRecords = 2

\* C26 (SpecLedger).  Sequence markers: a record being created gets the
\* timestamp and number of the block its transaction runs in, and
\* addAlumniRecord returns that marker; of two records the one earlier in
\* the index has a timestamp and a block number not greater than those of
\* the later one; getRecord returns the marker that addAlumniRecord
\* returned in every later state, and so does verifyRecord.
MarkersOrdered ==
    \A i, j \in DOMAIN getAllCertificateIds :
        i < j =>
            /\ getRecord(getAllCertificateIds[i])[4] <= getRecord(getAllCertificateIds[j])[4]
            /\ getRecord(getAllCertificateIds[i])[5] <= getRecord(getAllCertificateIds[j])[5]

C26_SequenceMarkers ==
    [][/\ MarkersOrdered
       /\ MarkersOrdered'
       /\ \A c \in CertIds :
             /\ (~recordExists(c) /\ recordExists(c)')
                => /\ getRecord(c)'[4] = blockTimestamp
                   /\ getRecord(c)'[5] = blockNumber
                   /\ tx'.op = "addAlumniRecord"
                   /\ tx'.ret = <<TRUE, getRecord(c)'[4], getRecord(c)'[5]>>
             /\ recordExists(c)
                => /\ getRecord(c)'[4] = getRecord(c)[4]
                   /\ getRecord(c)'[5] = getRecord(c)[5]
             /\ (/\ tx'.op = "verifyRecord"
                 /\ tx'.status = "ok"
                 /\ tx'.logs[1].certId = c)
                => /\ tx'.ret[4] = getRecord(c)'[4]
                   /\ tx'.ret[5] = getRecord(c)'[5]]_vars

\* Two records created in different blocks; the earlier one has just been
\* verified and its marker returned.
C26_Witness ==
    /\ Len(getAllCertificateIds) = 2
    /\ getRecord(getAllCertificateIds[1])[5] < getRecord(getAllCertificateIds[2])[5]
    /\ getRecord(getAllCertificateIds[1])[4] < getRecord(getAllCertificateIds[2])[4]
    /\ tx.op = "verifyRecord"
    /\ tx.status = "ok"
    /\ tx.logs[1].certId = getAllCertificateIds[1]
    /\ tx.ret[5] < blockNumber

\* C27 (SpecHash).  Hash reproducibility: in every state generateDataHash
\* of six strings is keccak256 of their concatenation in the order name,
\* rollNumber, degree, branch, graduationYear, certId, whatever the ledger
\* and the registry hold; generateDataHash of hashUtils.js gives the same
\* value for the same six fields, so a verification with the contract's
\* hash of the presented fields succeeds exactly when the backend's hash of
\* them is the stored one.
C27_HashReproducible ==
    /\ \A f \in FieldTuples :
          /\ generateDataHash(f[1], f[2], f[3], f[4], f[5], f[6])
                = keccak256(f[1] \o f[2] \o f[3] \o f[4] \o f[5] \o f[6])
          /\ hashUtils_generateDataHash(AlumniDataOf(f))
                = generateDataHash(f[1], f[2], f[3], f[4], f[5], f[6])
    /\ (tx.op = "verifyRecord" /\ tx.status = "ok") =>
          (tx.ret[1] <=>
              getRecord(tx.logs[1].certId)[1]
                  = hashUtils_generateDataHash(AlumniDataOf(alumniData)))

\* A verification of fields with a graduation year and a certId succeeded.
C27_Witness ==
    /\ tx.op = "verifyRecord"
    /\ tx.status = "ok"
    /\ tx.ret[1]
    /\ alumniData[5] # EmptyString
    /\ alumniData[6] # EmptyString
    /\ alumniData[5] # alumniData[6]

\* C28 (SpecSplit).  Canonicalization weakness: when the presented fields
\* differ from fields the stored hash was derived from only in where the
\* boundary between two adjacent fields falls, verifyRecord with the hash
\* of the presented fields returns isValid = true.
BoundaryShift(f, g) ==
    \E i \in 1..5 :
        /\ f[i] # g[i]
        /\ f[i] \o f[i + 1] = g[i] \o g[i + 1]
        /\ \A j \in (1..6) \ {i, i + 1} : f[j] = g[j]

C28_BoundaryCollision ==
    (tx.op = "verifyRecord" /\ tx.status = "ok") =>
        \A f \in SplitTuples :
            BoundaryShift(f, alumniData) =>
                /\ SplitHashOf[f] = SplitHashOf[alumniData]
                /\ getRecord(tx.logs[1].certId)[1] = SplitHashOf[f] => tx.ret[1]

\* The record was created from ("AB", "C", ...) and verified as valid with
\* the hash of ("A", "BC", ...).
C28_Witness ==
    /\ tx.op = "verifyRecord"
    /\ tx.status = "ok"
    /\ tx.ret[1]
    /\ alumniData = [i \in 1..6 |->
                        IF i = 1 THEN <<1>> ELSE IF i = 2 THEN <<2, 1>> ELSE EmptyString]
    /\ getRecord(<<1>>)[1] =
           SplitHashOf[[i \in 1..6 |->
                          IF i = 1 THEN <<1, 2>> ELSE IF i = 2 THEN <<1>> ELSE EmptyString]]

\* C30 (Spec).  Revocation blocks writes: a successful revokeIssuer(I)
\* leaves I unauthorized; while I is unauthorized every addAlumniRecord by
\* I fails with 'Not an authorized issuer' and changes nothing; I becomes
\* authorized again only by a successful authorizeIssuer(I, name) or by a
\* successful transferOwnership that makes I the owner; once I is
\* authorized its addAlumniRecord calls with a new non-empty certId and a
\* non-zero hash succeed and the record carries the name registered for I
\* at that moment, which after authorizeIssuer(I, name) is name.
C30_RevocationBlocks ==
    [][\A I \in Accounts :
          /\ (/\ tx'.op = "revokeIssuer"
              /\ tx'.status = "ok"
              /\ revokeIssuer(owner, I))
             => ~isAuthorizedIssuer(I)'
          /\ (tx'.op = "addAlumniRecord" /\ ~isAuthorizedIssuer(I))
             => \A c \in CertIds, h \in DataHashes :
                   addAlumniRecord(I, c, h)
                   => /\ tx'.status = "Not an authorized issuer"
                      /\ UNCHANGED ledger
          /\ (~isAuthorizedIssuer(I) /\ isAuthorizedIssuer(I)')
             => \/ /\ tx'.op = "authorizeIssuer"
                   /\ tx'.status = "ok"
                   /\ tx'.logs[1].issuer = I
                   /\ getIssuerName(I)' = tx'.logs[1].name
                \/ /\ tx'.op = "transferOwnership"
                   /\ tx'.status = "ok"
                   /\ owner' = I
          /\ (tx'.op = "addAlumniRecord" /\ isAuthorizedIssuer(I))
             => \A c \in CertIds, h \in DataHashes :
                   (/\ c # EmptyString
                    /\ ~recordExists(c)
                    /\ h # ZeroHash
                    /\ addAlumniRecord(I, c, h))
                   => /\ tx'.status = "ok"
                      /\ getRecord(c)'[2] = I
                      /\ getRecord(c)'[3] = getIssuerName(I)]_vars

\* The deployer, revoked and then authorized again under another name, has
\* created a record that carries the new name.
C30_Witness ==
    /\ tx.op = "addAlumniRecord"
    /\ tx.status = "ok"
    /\ tx.logs[1].issuer = Deployer
    /\ owner # Deployer
    /\ tx.logs[1].issuerName \in InstitutionNames
    /\ getRecord(tx.logs[1].certId)[3] = tx.logs[1].issuerName

\* C29 (SpecBackend).  Check-then-insert under concurrency: when two add
\* requests for the same certId have both passed the recordExists
\* pre-check and both their addAlumniRecord transactions have run, one
\* transaction was accepted and the other rejected with 'Certificate ID
\* already exists'; the ledger holds one record and one index entry for
\* the certId, the record of the accepted request.
Sent(r) ==
    /\ requests[r].pc = "done"
    /\ requests[r].response.status \in {201, 403, 500}

C29_CheckThenInsert ==
    \A r1, r2 \in RequestIds :
        (/\ r1 # r2
         /\ Sent(r1)
         /\ Sent(r2)
         /\ requests[r1].body[6] = requests[r2].body[6])
        => LET c == requests[r1].body[6]
               accepted == {r \in {r1, r2} : requests[r].response.status = 201}
               rejected == {r \in {r1, r2} : requests[r].response.status = 500}
           IN  /\ Cardinality(accepted) = 1
               /\ Cardinality(rejected) = 1
               /\ \A r \in rejected :
                     requests[r].response.error = "Certificate ID already exists"
               /\ recordExists(c)
               /\ Cardinality({i \in DOMAIN getAllCertificateIds :
                                  getAllCertificateIds[i] = c}) = 1
               /\ getTotalRecords = 1
               /\ \A r \in accepted : getRecord(c)[1] = requests[r].dataHash

\* Both requests passed the pre-check with different names for the same
\* certId; the second transaction was rejected.
C29_Witness ==
    /\ Sent(1)
    /\ Sent(2)
    /\ requests[1].body[6] = requests[2].body[6]
    /\ requests[1].dataHash # requests[2].dataHash
    /\ requests[1].response.status = 500
    /\ tx.status = "Certificate ID already exists"

\* C32 (Spec).  Name stability: a step that changes the stored name of an
\* identity is a successful authorizeIssuer on that identity, which was
\* unauthorized and not the owner before the step; so no step changes the
\* name of an authorized identity or of the owner, and an identity that
\* becomes owner keeps the name it had, empty or not.
C32_NameStable ==
    [][\A a \in Address :
          /\ getIssuerName(a)' # getIssuerName(a)
             => /\ tx'.op = "authorizeIssuer"
                /\ tx'.status = "ok"
                /\ tx'.logs = <<IssuerAuthorized(a, getIssuerName(a)')>>
                /\ ~isAuthorizedIssuer(a)
                /\ a # owner
          /\ isAuthorizedIssuer(a) => getIssuerName(a)' = getIssuerName(a)
          /\ (a = owner \/ a = owner') => getIssuerName(a)' = getIssuerName(a)]_vars

\* An owner that got its authorization by a hand-over has revoked the
\* deployer and still has no name, while the deployer keeps its own.
C32_Witness ==
    /\ getIssuerName(owner) = EmptyName
    /\ tx.op = "revokeIssuer"
    /\ tx.status = "ok"
    /\ tx.logs = <<IssuerRevoked(Deployer)>>
    /\ getIssuerName(Deployer) = DeployName

\* C33 (SpecLedger).  Stored records are well-formed: every certId in the
\* index is non-empty, and every record that exists has a non-zero
\* dataHash, a non-null issuer and a certId field equal to its key.
C33_WellFormed ==
    /\ \A i \in DOMAIN getAllCertificateIds : getAllCertificateIds[i] # EmptyString
    /\ \A c \in CertIds :
          recordExists(c) =>
              /\ records[c].dataHash # ZeroHash
              /\ records[c].issuer # ZeroAddress
              /\ records[c].certId = c
              /\ c # EmptyString

\* The only record is <<2>>, and an empty certId has just been refused
\* under a new owner.
C33_Witness ==
    /\ recordExists(<<2>>)
    /\ ~recordExists(<<1>>)
    /\ tx.op = "addAlumniRecord"
    /\ tx.status = "Certificate ID cannot be empty"
    /\ owner # Deployer

\* C35 (SpecLedger).  Verification is caller-independent: a verifyRecord call is
\* the same step for every caller, and its status and return values are
\* VerifyOutcome of the stored record and the submitted hash alone; a step
\* of authorizeIssuer, revokeIssuer or transferOwnership leaves every record,
\* and so every getRecord and every verification outcome, as it was.
VerifyOutcome(record, _dataHash) ==
    IF record.exists
    THEN <<"ok", <<_dataHash = record.dataHash, record.issuer, record.issuerName,
                   record.timestamp, record.blockNumber>>>>
    ELSE <<"Certificate ID does not exist", <<>>>>

C35_CallerIndependent ==
    [][/\ tx'.op = "verifyRecord"
          => \A s \in LedgerAccounts, c \in CertIds, h \in LedgerHashes :
                verifyRecord(s, c, h)
                => /\ <<tx'.status, tx'.ret>> = VerifyOutcome(records[c], h)
                   /\ \A other \in LedgerAccounts : verifyRecord(other, c, h)
       /\ tx'.op \in {"authorizeIssuer", "revokeIssuer", "transferOwnership"}
          => \A c \in CertIds, h \in LedgerHashes :
                /\ getRecord(c)' = getRecord(c)
                /\ VerifyOutcome(records[c], h)' = VerifyOutcome(records[c], h)]_vars

\* A record is verified as valid after its issuer was revoked and the
\* ownership moved on.
C35_Witness ==
    /\ tx.op = "verifyRecord"
    /\ tx.status = "ok"
    /\ tx.ret[1]
    /\ ~isAuthorizedIssuer(tx.ret[2])
    /\ owner # Deployer

\* C36 (Spec).  Provenance of authorization: after construction the deployer
\* alone is authorized; the null address is never authorized; an identity
\* becomes authorized only by a successful authorizeIssuer of the owner on
\* it or a successful transferOwnership to it, and stops being authorized
\* only by a successful revokeIssuer of the owner on it; addAlumniRecord and
\* verifyRecord leave the authorization map unchanged.
C36_Provenance ==
    /\ \A a \in Address : isAuthorizedIssuer(a) <=> a = Deployer
    /\ [][/\ ~isAuthorizedIssuer(ZeroAddress)'
           /\ \A a \in Address :
                 /\ (isAuthorizedIssuer(a)' /\ ~isAuthorizedIssuer(a))
                    => /\ tx'.status = "ok"
                       /\ \/ /\ tx'.op = "authorizeIssuer"
                             /\ \E n \in InstitutionNames : authorizeIssuer(owner, a, n)
                          \/ /\ tx'.op = "transferOwnership"
                             /\ owner' = a
                             /\ transferOwnership(owner, a)
                 /\ (isAuthorizedIssuer(a) /\ ~isAuthorizedIssuer(a)')
                    => /\ tx'.status = "ok"
                       /\ tx'.op = "revokeIssuer"
                       /\ revokeIssuer(owner, a)
           /\ tx'.op \in {"addAlumniRecord", "verifyRecord"}
              => authorizedIssuers' = authorizedIssuers]_vars

\* The deployer is revoked; one identity is authorized through the hand-over
\* of the ownership, the other through authorizeIssuer.
C36_Witness ==
    /\ ~isAuthorizedIssuer(Deployer)
    /\ owner = "issuer2"
    /\ getIssuerName("issuer2") = EmptyName
    /\ isAuthorizedIssuer("issuer1")
    /\ getIssuerName("issuer1") \in InstitutionNames

C34_AuditLog ==
    /\ [i \in DOMAIN eventLog |-> eventLog[i].certId] = getAllCertificateIds
    /\ Len(eventLog) = getTotalRecords
    /\ \A i \in DOMAIN eventLog :
          LET e == eventLog[i]
              stored == getRecord(e.certId)
          IN  /\ e.dataHash = stored[1]
              /\ e.issuer = stored[2]
              /\ e.issuerName = stored[3]
              /\ e.timestamp = stored[4]
              /\ e.blockNumber = stored[5]
              /\ stored[6]

\* Two events of different issuers and different blocks are in the log, and
\* the issuer of the first has been revoked since.
C34_Witness ==
    /\ Len(eventLog) = 2
    /\ eventLog[1].issuer # eventLog[2].issuer
    /\ eventLog[1].blockNumber < eventLog[2].blockNumber
    /\ ~isAuthorizedIssuer(eventLog[1].issuer)

\* C31 (SpecCheck).  The verification route agrees with the ledger: a
\* request with an empty certId is answered 400 'Certificate ID is
\* required'; a request with a non-empty certId is answered 404 'Certificate
\* not found' exactly when the ledger has no record of the certId; and
\* otherwise it is answered with the issuer and the issuerName of the stored
\* record, and with valid equal to isValid of VerifyOutcome on the stored
\* record and the contract's generateDataHash of the alumniData with the
\* certId, which is what a verifyRecord call on the same plaintext returns.
Answered(_status, _message) ==
    /\ check'.pc = "done"
    /\ check'.response.status = _status
    /\ check'.response.message = _message

C31_SameAsVerifyRecord ==
    (/\ check.pc = "done"
     /\ check.response.status = 200
     /\ check.alumniData # Null
     /\ tx.op = "verifyRecord"
     /\ alumniData = WithCertId(check.alumniData, check.certId))
    => /\ tx.status = "ok"
       /\ check.response.valid = tx.ret[1]
       /\ check.response.data.issuer = tx.ret[2]
       /\ check.response.data.issuerName = tx.ret[3]

C31_VerifyAgrees ==
    /\ []C31_SameAsVerifyRecord
    /\ [][/\ (check.pc = "idle" /\ check'.pc # "idle")
             => (check'.certId = EmptyString
                 <=> Answered(400, "Certificate ID is required"))
          /\ (check.pc = "recordExists" /\ check'.pc # "recordExists")
             => (~recordExists(check.certId)
                 <=> Answered(404, "Certificate not found"))
          /\ (check.pc = "getRecord" /\ check'.pc # "getRecord")
             => /\ Answered(200, "")
                /\ recordExists(check.certId)
                /\ check'.response.data.issuer = records[check.certId].issuer
                /\ check'.response.data.issuerName = records[check.certId].issuerName
                /\ (check.alumniData # Null
                    => check'.response.valid =
                           VerifyOutcome(records[check.certId],
                               generateDataHashOf(
                                   WithCertId(check.alumniData, check.certId)))[2][1])]_vars

\* The route has answered that the alumniData does not match, the
\* alumniData carried no certId of its own, and verifyRecord of the
\* contract has been called on the same plaintext since.
C31_Witness ==
    /\ check.pc = "done"
    /\ check.response.status = 200
    /\ ~check.response.valid
    /\ check.alumniData # Null
    /\ check.alumniData[6] # check.certId
    /\ tx.op = "verifyRecord"
    /\ tx.status = "ok"
    /\ alumniData = WithCertId(check.alumniData, check.certId)
    /\ check.response.data.issuer # Deployer

\* C31 as stated: for every certId the route answers 404 exactly when the
\* ledger has no record of the certId.
C31_AsStated ==
    [][(check.pc # "done" /\ check'.pc = "done")
          => (check'.response.status = 404 <=> ~recordExists(check'.certId))]_vars

====
